---- MODULE Spec2Model ----
(***************************************************************************)
(* Model of the Google Fit authorization flow of the CLARA front end:      *)
(* the initiate endpoint (app/authorize/route.ts), the OAuth2 redirect     *)
(* handler (GET of the oauth2callback route), and the helpers of           *)
(* lib/oauth.ts (FIT_SCOPES, hasRequiredScopes, setEncryptedCookie).       *)
(*                                                                         *)
(* The browser owns the cookie jar.  A request carries the cookies the jar *)
(* holds when it is sent; the cookies a handler sets travel in its         *)
(* response and reach the jar only when the response is delivered.         *)
(***************************************************************************)
EXTENDS Integers, Sequences, FiniteSets, TLC

\* ------------------------------------------------------------------------
\* Bounds
\* ------------------------------------------------------------------------
MaxReq == 2        \* callback requests sent in one behaviour
MaxIssue == 2      \* calls of the initiate endpoint in one behaviour
MaxSpaces == 2     \* longest run of separators between two scopes
MaxPlain == 2      \* characters of a value given to setEncryptedCookie
MaxPicks == 2      \* date selections on the logs page in one behaviour

\* ------------------------------------------------------------------------
\* JavaScript values
\* ------------------------------------------------------------------------
\* searchParams.get() returns null for a missing parameter
NullParam == "#null"
\* cookieStore.get(name)?.value is undefined for a missing cookie
UndefinedValue == "#undefined"

\* Strings that are split into tokens are sequences of atoms: an atom is a
\* scope identifier, a space or a tab.  null and undefined are kept apart
\* from every string.
SP == " "
TAB == "\t"
Null == <<"#null">>
Undefined == <<"#undefined">>
EmptyString == <<>>

\* !x for a string-or-null parameter
Falsy(x) == x \in {NullParam, UndefinedValue, ""}
\* !x for a scope string
FalsyStr(s) == s \in {Null, Undefined, EmptyString}

FIT_SCOPES ==
  << "https://www.googleapis.com/auth/fitness.activity.read",
     "https://www.googleapis.com/auth/fitness.location.read",
     "https://www.googleapis.com/auth/fitness.body.read",
     "https://www.googleapis.com/auth/fitness.heart_rate.read",
     "https://www.googleapis.com/auth/fitness.sleep.read" >>

\* String.prototype.split(sep) for a one-character separator, generalised to
\* a set of separator atoms: "".split(" ") is [""].
RECURSIVE SplitFrom(_, _, _, _, _)
SplitFrom(s, seps, i, cur, acc) ==
  IF i > Len(s) THEN Append(acc, cur)
  ELSE IF s[i] \in seps
       THEN SplitFrom(s, seps, i + 1, <<>>, Append(acc, cur))
       ELSE SplitFrom(s, seps, i + 1, Append(cur, s[i]), acc)

Split(s, seps) == SplitFrom(s, seps, 1, <<>>, <<>>)

\* Array.prototype.filter(Boolean) on an array of strings
NonEmptyToken(t) == t # <<>>
FilterBoolean(arr) == SelectSeq(arr, NonEmptyToken)

\* Array.prototype.includes(scope): a token is the scope only if it is that
\* one identifier and nothing else
Includes(arr, scope) == \E i \in DOMAIN arr : arr[i] = <<scope>>

\* A verifier satisfied by any one of the required scopes
hasRequiredScopes_Some(granted) ==
  IF FalsyStr(granted) THEN FALSE
  ELSE LET grantedArray == FilterBoolean(Split(granted, {SP}))
       IN  \E k \in DOMAIN FIT_SCOPES : Includes(grantedArray, FIT_SCOPES[k])

hasRequiredScopes(granted) ==
  IF FalsyStr(granted) THEN FALSE
  ELSE LET grantedArray == FilterBoolean(Split(granted, {SP}))
       IN  \A k \in DOMAIN FIT_SCOPES : Includes(grantedArray, FIT_SCOPES[k])

\* The scope check written inline in the callback handler: the missing list
\* of (tokenResponse.scope ?? "").split(" ")
NullishCoalesce(s, dflt) == IF s \in {Null, Undefined} THEN dflt ELSE s

\* An inline check that splits on tabs as well as on spaces
missingScopes_SplitsOnWhitespace(scope) ==
  LET grantedScopes == Split(NullishCoalesce(scope, EmptyString), {SP, TAB})
      Missing(sc) == ~Includes(grantedScopes, sc)
  IN  SelectSeq(FIT_SCOPES, Missing)

missingScopes(scope) ==
  LET grantedScopes == Split(NullishCoalesce(scope, EmptyString), {SP})
      Missing(sc) == ~Includes(grantedScopes, sc)
  IN  SelectSeq(FIT_SCOPES, Missing)

\* ------------------------------------------------------------------------
\* Granted-scope strings
\* ------------------------------------------------------------------------
\* How one required scope is written into a granted string: left out, glued
\* to what precedes it, or preceded by a run of 1..MaxSpaces spaces or tabs.
PieceKinds ==
  {<<"omit", 0>>, <<"glue", 0>>}
    \cup {<<"sp", n>> : n \in 1..MaxSpaces}
    \cup {<<"tab", n>> : n \in 1..MaxSpaces}

RECURSIVE Repeat(_, _)
Repeat(a, n) == IF n = 0 THEN <<>> ELSE <<a>> \o Repeat(a, n - 1)

Piece(kind, scope) ==
  IF kind[1] = "omit" THEN <<>>
  ELSE IF kind[1] = "glue" THEN <<scope>>
  ELSE IF kind[1] = "sp" THEN Repeat(SP, kind[2]) \o <<scope>>
  ELSE Repeat(TAB, kind[2]) \o <<scope>>

RECURSIVE BuildFrom(_, _, _)
BuildFrom(choice, order, k) ==
  IF k > Len(order) THEN <<>>
  ELSE Piece(choice[k], FIT_SCOPES[order[k]]) \o BuildFrom(choice, order, k + 1)

Forward == [k \in DOMAIN FIT_SCOPES |-> k]
Backward == [k \in DOMAIN FIT_SCOPES |-> Len(FIT_SCOPES) + 1 - k]

BuildGrant(choice, order) == BuildFrom(choice, order, 1)

\* Every granted value the scope verifier is tried on
Tails == {<<>>, <<SP>>, <<TAB>>}

GrantInputs ==
  {Null, Undefined}
    \cup {BuildGrant(c, o) \o t :
            c \in [DOMAIN FIT_SCOPES -> PieceKinds], o \in {Forward, Backward}, t \in Tails}

\* The granted values the provider answers with in the callback flow
AllWith(kind) == [k \in DOMAIN FIT_SCOPES |-> IF k = 1 THEN <<"glue", 0>> ELSE kind]
GrantFull == BuildGrant(AllWith(<<"sp", 1>>), Forward)
GrantNoSleep ==
  BuildGrant([AllWith(<<"sp", 1>>) EXCEPT ![Len(FIT_SCOPES)] = <<"omit", 0>>], Forward)
GrantTabbed == BuildGrant(AllWith(<<"tab", 1>>), Forward)
GrantSamples == {Undefined, GrantFull, GrantNoSleep, GrantTabbed}
\* ------------------------------------------------------------------------
\* Cookies, credentials, responses
\* ------------------------------------------------------------------------
\* A cookie value: a plain string, a JSON text, or nothing (cookie not there)
NoCookie == [fmt |-> "absent"]
TextCookie(str) == [fmt |-> "text", text |-> str]

\* JSON.stringify(tokens): the credential in clear, as JSON text
JSONstringify(tokens) == [fmt |-> "json", json |-> tokens]

\* The Credentials object resolved by OAuth2Client.getToken
Credentials(grant) ==
  [access_token |-> "ya29.access", refresh_token |-> "1//refresh", scope |-> grant]
NoCredentials == [access_token |-> "", refresh_token |-> "", scope |-> Undefined]

\* cookieStore.get(name)?.value
CookieValue(c) == IF c.fmt = "text" THEN c.text ELSE UndefinedValue

\* Options of cookieStore.set
NoOptions == [set |-> FALSE]
SessionCookieOptions(env) ==
  [set |-> TRUE, httpOnly |-> TRUE, sameSite |-> "lax",
   secure |-> (env = "production"), path |-> "/", maxAge |-> -1]
ClearCookieOptions ==
  [set |-> TRUE, httpOnly |-> FALSE, sameSite |-> "", secure |-> FALSE,
   path |-> "/", maxAge |-> 0]

\* A Set-Cookie of a response; NoSetCookie when the handler did not set it
NoSetCookie == [value |-> NoCookie, options |-> NoOptions]
SetCookie(v, o) == [value |-> v, options |-> o]

\* A browser that keeps the cookie it has when a new one is set
ApplySetCookie_KeepsExisting(old, sc) ==
  IF ~sc.options.set THEN old
  ELSE IF sc.options.maxAge = 0 THEN NoCookie
  ELSE IF old # NoCookie THEN old
  ELSE sc.value

\* What the browser does with a Set-Cookie: max-age 0 removes the cookie
ApplySetCookie(old, sc) ==
  IF ~sc.options.set THEN old
  ELSE IF sc.options.maxAge = 0 THEN NoCookie
  ELSE sc.value

\* NextResponse.redirect(url)
RedirectStatus == 307
NoResponse == [status |-> 0, location |-> ""]
NextResponseRedirect(url) == [status |-> RedirectStatus, location |-> url]

\* crypto.randomUUID(): a value never produced before
UuidTable == <<"uuid-1", "uuid-2", "uuid-3", "uuid-4">>
randomUUID(n) == UuidTable[n]

StateParams == {NullParam, ""} \cup {randomUUID(n) : n \in 1..MaxIssue}
CodeParams == {NullParam, "", "validcode", "othercode"}
\* Codes the provider issued: getToken can resolve only for these
IssuedCodes == {"validcode"}
ProviderErrors == {"invalid_grant", "ETIMEDOUT"}
\* ------------------------------------------------------------------------
\* Process environment and client_secret.json
\* ------------------------------------------------------------------------
\* A variable of process.env is a string, or undefined when it is not set
EnvValues(v) == {UndefinedValue, "", v}
ProcessEnvs ==
  [GOOGLE_CLIENT_ID : EnvValues("env-client-id"),
   GOOGLE_CLIENT_SECRET : EnvValues("env-client-secret"),
   GOOGLE_REDIRECT_URI : EnvValues("https://clara.example/oauth2callback")]
ConfiguredEnv ==
  [GOOGLE_CLIENT_ID |-> "env-client-id",
   GOOGLE_CLIENT_SECRET |-> "env-client-secret",
   GOOGLE_REDIRECT_URI |-> "https://clara.example/oauth2callback"]
NodeEnvs == {"production", "development"}

\* client_secret.json: absent (or unreadable, or not JSON), without an
\* "installed" and without a "web" entry, or with one of them.  A property
\* the entry lacks is undefined.
NoSecretsFile ==
  [kind |-> "absent", client_id |-> UndefinedValue, client_secret |-> UndefinedValue,
   redirect_uris |-> Undefined]
SecretsFiles ==
  {NoSecretsFile, [NoSecretsFile EXCEPT !.kind = "neither"]}
  \cup [kind : {"installed", "web"},
        client_id : {UndefinedValue, "file-client-id"},
        client_secret : {UndefinedValue, "file-client-secret"},
        redirect_uris : {Undefined, <<>>, <<"https://clara.example/file-callback">>}]

\* ------------------------------------------------------------------------
\* Query strings
\* ------------------------------------------------------------------------
\* A URL is a sequence of atoms, as a scope string is.  The record given to
\* new URLSearchParams is converted value by value to a string: undefined
\* becomes the text "undefined", and the empty string has no atom.
ToUSVString(v) ==
  IF v = UndefinedValue THEN <<"undefined">> ELSE IF v = "" THEN <<>> ELSE <<v>>

\* Array.prototype.join(sep), of an array of token sequences
RECURSIVE JoinFrom(_, _, _)
JoinFrom(parts, sep, i) ==
  IF i > Len(parts) THEN <<>>
  ELSE IF i = Len(parts) THEN parts[i]
  ELSE parts[i] \o <<sep>> \o JoinFrom(parts, sep, i + 1)

Join(arr, sep) == JoinFrom([i \in DOMAIN arr |-> <<arr[i]>>], sep, 1)

\* application/x-www-form-urlencoded: a space is written as "+"
FormEncode(v) == [i \in DOMAIN v |-> IF v[i] = SP THEN "+" ELSE v[i]]

\* URLSearchParams.prototype.toString(): name=value pairs joined by "&"
ParamsToString(params) ==
  JoinFrom([i \in DOMAIN params |->
              <<params[i].name, "=">> \o FormEncode(params[i].value)], "&", 1)

\* A scope string with the required scopes glued to "profile"
ConsentScope_NoSeparator ==
  <<"openid", SP, "email", SP, "profile">> \o Join(FIT_SCOPES, SP)

\* `openid email profile ${FIT_SCOPES.join(" ")}`
ConsentScope ==
  <<"openid", SP, "email", SP, "profile", SP>> \o Join(FIT_SCOPES, SP)

AuthEndpoint == "https://accounts.google.com/o/oauth2/v2/auth"

\* The initiate endpoint has not answered yet
NoAuthResponse ==
  [response |-> [status |-> 0, location |-> <<>>], setState |-> NoSetCookie]

\* ------------------------------------------------------------------------
\* Construction of the OAuth client
\* ------------------------------------------------------------------------
\* readClientSecrets(): null when the file cannot be read or parsed, when it
\* has neither entry, and when the entry has no redirect_uris (indexing
\* undefined throws, and the catch returns null)
NullCreds ==
  [isNull |-> TRUE, id |-> UndefinedValue, secret |-> UndefinedValue,
   redirectUri |-> UndefinedValue]
readClientSecrets(file) ==
  IF file.kind \in {"absent", "neither"} THEN NullCreds
  ELSE IF file.redirect_uris = Undefined THEN NullCreds
  ELSE [isNull |-> FALSE, id |-> file.client_id, secret |-> file.client_secret,
        redirectUri |-> IF file.redirect_uris = <<>> THEN UndefinedValue
                        ELSE file.redirect_uris[1]]

\* a ?? b
Coalesce(a, b) == IF a \in {NullParam, UndefinedValue} THEN b ELSE a

\* new OAuth2Client({clientId, clientSecret, redirectUri}): the constructor
\* keeps what it is given
NoClient ==
  [kind |-> "none", by |-> "", clientId |-> UndefinedValue,
   clientSecret |-> UndefinedValue, redirectUri |-> UndefinedValue]
OAuth2Client(by, clientId, clientSecret, redirectUri) ==
  [kind |-> "client", by |-> by, clientId |-> clientId,
   clientSecret |-> clientSecret, redirectUri |-> redirectUri]
\* throw new Error("Google OAuth credentials not found. ...")
CredentialsNotFound(by) == [NoClient EXCEPT !.kind = "threw", !.by = by]

\* fileCreds?.x is undefined when fileCreds is null, which NullCreds holds
buildOAuthClient(file, env) ==
  LET fileCreds == readClientSecrets(file)
      clientId == Coalesce(fileCreds.id, env.GOOGLE_CLIENT_ID)
      clientSecret == Coalesce(fileCreds.secret, env.GOOGLE_CLIENT_SECRET)
      redirectUri == Coalesce(fileCreds.redirectUri, env.GOOGLE_REDIRECT_URI)
  IN  IF Falsy(clientId) \/ Falsy(redirectUri)
      THEN CredentialsNotFound("buildOAuthClient")
      ELSE OAuth2Client("buildOAuthClient", clientId, clientSecret, redirectUri)

\* The client of the callback handler: the three variables as they are
CallbackOAuth2Client(env) ==
  OAuth2Client("oauth2callback", env.GOOGLE_CLIENT_ID, env.GOOGLE_CLIENT_SECRET,
               env.GOOGLE_REDIRECT_URI)

\* ------------------------------------------------------------------------
\* Bytes, text and Base64
\* ------------------------------------------------------------------------
\* A byte is a number below ByteRange; a Uint8Array is a sequence of bytes
ByteRange == 256
IvLength == 12       \* new Uint8Array(12)
KeyLength == 32      \* slice(0, 32)
\* crypto.subtle.encrypt with {name: "AES-GCM", iv} and no tagLength appends
\* a tag of 128 bits to the ciphertext
TagLength == 16
\* Lengths of raw key that importKey accepts for AES
AesKeyLengths == {16, 24, 32}

\* TextEncoder.encode: UTF-8, one byte for an ASCII character and two for
\* "é"; the characters are those of the secrets and plaintexts below
Utf8Table ==
  ("a" :> <<97>>) @@ ("b" :> <<98>>) @@ ("c" :> <<99>>) @@ ("d" :> <<100>>) @@
  ("e" :> <<101>>) @@ ("g" :> <<103>>) @@ ("k" :> <<107>>) @@ ("l" :> <<108>>) @@
  ("n" :> <<110>>) @@ ("o" :> <<111>>) @@ ("r" :> <<114>>) @@ ("s" :> <<115>>) @@
  ("t" :> <<116>>) @@ ("v" :> <<118>>) @@ ("y" :> <<121>>) @@ ("_" :> <<95>>) @@
  ("2" :> <<50>>) @@ ("3" :> <<51>>) @@ ("é" :> <<195, 169>>)

RECURSIVE EncodeFrom(_, _)
EncodeFrom(str, i) ==
  IF i > Len(str) THEN <<>> ELSE Utf8Table[str[i]] \o EncodeFrom(str, i + 1)
TextEncode(str) == EncodeFrom(str, 1)

\* Buffer.from(bytes).toString("base64"): three bytes give four characters,
\* each written here as its index in the Base64 alphabet; Base64Pad is "="
Base64Pad == 64
RECURSIVE Base64From(_, _)
Base64From(b, i) ==
  IF i > Len(b) THEN <<>>
  ELSE IF i + 2 <= Len(b)
       THEN << b[i] \div 4,
               (b[i] % 4) * 16 + (b[i + 1] \div 16),
               (b[i + 1] % 16) * 4 + (b[i + 2] \div 64),
               b[i + 2] % 64 >> \o Base64From(b, i + 3)
  ELSE IF i + 1 = Len(b)
       THEN << b[i] \div 4,
               (b[i] % 4) * 16 + (b[i + 1] \div 16),
               (b[i + 1] % 16) * 4,
               Base64Pad >>
  ELSE << b[i] \div 4, (b[i] % 4) * 16, Base64Pad, Base64Pad >>
Base64Encode(b) == Base64From(b, 1)

\* ------------------------------------------------------------------------
\* AES-GCM
\* ------------------------------------------------------------------------
\* The cipher stands in the model by the two things the helper relies on:
\* each plaintext byte is masked by a keystream byte that key, IV and
\* position determine, and the tag is a checksum over key, IV and
\* ciphertext in which every byte of IV and ciphertext weighs.
KeyStream(key, iv, i) ==
  (key[((i - 1) % Len(key)) + 1] + iv[((i - 1) % Len(iv)) + 1] + i) % ByteRange

RECURSIVE WeightedSum(_, _, _)
WeightedSum(x, j, i) ==
  IF i > Len(x) THEN 0 ELSE (i + j) * x[i] + WeightedSum(x, j, i + 1)

\* A tag that only the key determines
GcmTag_KeyOnly(key, iv, ct) == [j \in 1..TagLength |-> key[j]]

GcmTag(key, iv, ct) ==
  [j \in 1..TagLength |-> (key[j] + WeightedSum(iv \o ct, j, 1)) % ByteRange]

\* crypto.subtle.encrypt({name: "AES-GCM", iv}, cryptoKey, data)
AesGcmEncrypt(key, iv, data) ==
  LET ct == [i \in 1..Len(data) |-> (data[i] + KeyStream(key, iv, i)) % ByteRange]
  IN  ct \o GcmTag(key, iv, ct)

\* crypto.subtle.importKey("raw", keyMaterial, {name: "AES-GCM"}, ...):
\* rejects with a DataError unless the raw key has an AES key length
importKey(keyMaterial) ==
  IF Len(keyMaterial) \in AesKeyLengths
  THEN [ok |-> TRUE, key |-> keyMaterial]
  ELSE [ok |-> FALSE, key |-> <<>>]

\* ------------------------------------------------------------------------
\* setEncryptedCookie
\* ------------------------------------------------------------------------
FallbackSecret ==
  << "d", "e", "v", "_", "s", "e", "c", "r", "e", "t", "_", "k", "e", "y", "_",
     "3", "2", "_", "b", "y", "t", "e", "s", "_", "l", "o", "n", "g",
     "_", "_", "_", "_", "_", "_", "_", "_" >>

\* process.env.COOKIE_ENCRYPTION_SECRET ?? "dev_secret_key_32_bytes_long________"
ResolveSecret(envSecret) == NullishCoalesce(envSecret, FallbackSecret)

\* encoder.encode(secret).slice(0, 32)
Slice(b, n) == SubSeq(b, 1, IF Len(b) < n THEN Len(b) ELSE n)
KeyMaterial(secret) == Slice(TextEncode(secret), KeyLength)

\* A blob with the ciphertext in front of the IV
Combined_CiphertextFirst(iv, ciphertext) == ciphertext \o iv

\* combined: the IV, then ciphertext and tag
Combined(iv, ciphertext) == iv \o ciphertext

\* {httpOnly: true, sameSite: "lax", secure: ..., path: "/", ...options}
\* A merge in which the defaults win over what the caller passed
EncryptedCookieOptions_DefaultsWin(nenv, options) ==
  [httpOnly |-> TRUE, sameSite |-> "lax",
   secure |-> (nenv = "production"), path |-> "/"] @@ options

EncryptedCookieOptions(nenv, options) ==
  options @@ [httpOnly |-> TRUE, sameSite |-> "lax",
              secure |-> (nenv = "production"), path |-> "/"]

\* The Set-Cookie of the helper, or its rejection when importKey rejects
NoStoredCookie == [set |-> FALSE, name |-> "", value |-> <<>>, options |-> <<>>]
setEncryptedCookie(name, value, options, envSecret, nenv, iv) ==
  LET secret == ResolveSecret(envSecret)
      keyMaterial == KeyMaterial(secret)
      cryptoKey == importKey(keyMaterial)
  IN  IF ~cryptoKey.ok THEN [rejected |-> TRUE, cookie |-> NoStoredCookie]
      ELSE LET ciphertext == AesGcmEncrypt(cryptoKey.key, iv, TextEncode(value))
               combined == Combined(iv, ciphertext)
               encoded == Base64Encode(combined)
           IN  [rejected |-> FALSE,
                cookie |-> [set |-> TRUE, name |-> name, value |-> encoded,
                            options |-> EncryptedCookieOptions(nenv, options)]]

\* ------------------------------------------------------------------------
\* Reading the encrypted cookie back
\* ------------------------------------------------------------------------
\* lib/oauth.ts encrypts and has no function that decrypts.  decrypt and
\* load are those of the specification's Symmetric Cipher and Session
\* Cookie Codec, over the formats that setEncryptedCookie writes.

\* Base64 text back to bytes: four characters give up to three bytes
RECURSIVE Base64DecodeFrom(_, _)
Base64DecodeFrom(t, i) ==
  IF i + 3 > Len(t) THEN <<>>
  ELSE LET b1 == t[i] * 4 + (t[i + 1] \div 16)
           b2 == (t[i + 1] % 16) * 16 + (t[i + 2] \div 4)
           b3 == (t[i + 2] % 4) * 64 + t[i + 3]
       IN  IF t[i + 2] = Base64Pad THEN <<b1>>
           ELSE IF t[i + 3] = Base64Pad THEN <<b1, b2>>
           ELSE <<b1, b2, b3>> \o Base64DecodeFrom(t, i + 4)
Base64Decode(t) == Base64DecodeFrom(t, 1)

\* UTF-8 bytes back to text; a byte that starts no character is replaced
ReplacementChar == "U+FFFD"
RECURSIVE DecodeFrom(_, _)
DecodeFrom(b, i) ==
  IF i > Len(b) THEN <<>>
  ELSE LET fits == {c \in DOMAIN Utf8Table :
                      /\ i + Len(Utf8Table[c]) - 1 <= Len(b)
                      /\ SubSeq(b, i, i + Len(Utf8Table[c]) - 1) = Utf8Table[c]}
       IN  IF fits = {} THEN <<ReplacementChar>> \o DecodeFrom(b, i + 1)
           ELSE LET c == CHOOSE x \in fits : TRUE
                IN  <<c>> \o DecodeFrom(b, i + Len(Utf8Table[c]))
TextDecode(b) == DecodeFrom(b, 1)

\* decrypt(blob): the IV is split from the remainder; DecryptionFailed when
\* the blob is shorter than IV plus tag or the tag does not verify
DecryptionFailed == [ok |-> FALSE, plaintext |-> <<>>, error |-> "DecryptionFailed"]
decrypt(key, blob) ==
  IF Len(blob) < IvLength + TagLength THEN DecryptionFailed
  ELSE LET iv == SubSeq(blob, 1, IvLength)
           ct == SubSeq(blob, IvLength + 1, Len(blob) - TagLength)
           tag == SubSeq(blob, Len(blob) - TagLength + 1, Len(blob))
       IN  IF tag # GcmTag(key, iv, ct) THEN DecryptionFailed
           ELSE [ok |-> TRUE,
                 plaintext |-> [i \in 1..Len(ct) |->
                                  (ct[i] + ByteRange - KeyStream(key, iv, i)) % ByteRange],
                 error |-> ""]

\* load(name): read the cookie, Base64-decode, decrypt; SessionUnreadable
\* when the cookie is absent or decryption fails
SessionUnreadable == [ok |-> FALSE, value |-> <<>>, error |-> "SessionUnreadable"]
NotLoaded == [ok |-> FALSE, value |-> <<>>, error |-> ""]
NotDecrypted == [ok |-> FALSE, plaintext |-> <<>>, error |-> ""]
\* Base64 text: groups of four characters of the alphabet, "=" only at the
\* end of the last group
Base64Valid(t) ==
  /\ Len(t) % 4 = 0
  /\ \A i \in DOMAIN t :
        /\ t[i] \in 0..Base64Pad
        /\ t[i] = Base64Pad =>
             /\ i >= Len(t) - 1
             /\ i = Len(t) - 1 => t[Len(t)] = Base64Pad
DecryptCookie(cookie, envSecret) ==
  LET cryptoKey == importKey(KeyMaterial(ResolveSecret(envSecret)))
  IN  IF ~cookie.set \/ ~cryptoKey.ok \/ ~Base64Valid(cookie.value) THEN DecryptionFailed
      ELSE decrypt(cryptoKey.key, Base64Decode(cookie.value))
\* A load that tells a corrupted cookie from a missing one
load_TellsCorruptedFromMissing(cookie, envSecret) ==
  LET d == DecryptCookie(cookie, envSecret)
  IN  IF ~cookie.set THEN SessionUnreadable
      ELSE IF ~d.ok THEN [ok |-> FALSE, value |-> <<>>, error |-> d.error]
      ELSE [ok |-> TRUE, value |-> TextDecode(d.plaintext), error |-> ""]

load(cookie, envSecret) ==
  LET d == DecryptCookie(cookie, envSecret)
  IN  IF ~d.ok THEN SessionUnreadable
      ELSE [ok |-> TRUE, value |-> TextDecode(d.plaintext), error |-> ""]

\* ------------------------------------------------------------------------
\* Inputs of the cookie helper
\* ------------------------------------------------------------------------
PlainChars == {"a", "é"}
Plaintexts == UNION {[1..n -> PlainChars] : n \in 0..MaxPlain}

\* crypto.getRandomValues(new Uint8Array(12)): two of the values it can give
IvSamples ==
  { [i \in 1..IvLength |-> (7 * i) % ByteRange],
    [i \in 1..IvLength |-> (201 + 13 * i) % ByteRange] }

\* COOKIE_ENCRYPTION_SECRET: not set (the fallback, longer than the key, is
\* used), of the key length, and too short for an AES key
SecretOfKeyLength == [i \in 1..KeyLength |-> IF i % 2 = 1 THEN "k" ELSE "e"]
ShortSecret == <<"s", "e", "c", "r", "e", "t">>
EnvSecrets == {Undefined, SecretOfKeyLength, ShortSecret}

\* options of the caller: none, or a max-age
NoCallerOptions == [x \in {} |-> TRUE]
CallerOptions ==
  {NoCallerOptions, [maxAge |-> 3600], [httpOnly |-> FALSE, path |-> "/api"]}

\* A character that is not of the Base64 alphabet
NotBase64 == 65

\* What a third party does to one byte of a blob
ByteDeltas == {1, 128}

IdleCodec ==
  [pc |-> "idle", value |-> <<>>, options |-> NoCallerOptions,
   cookie |-> NoStoredCookie, altered |-> "no",
   decrypted |-> NotDecrypted, loaded |-> NotLoaded]

\* ------------------------------------------------------------------------
\* The pages: dates, and the state of the two components
\* ------------------------------------------------------------------------
\* A Date, as far as format(d, "yyyy-MM-dd") looks at it; NoDate is the
\* undefined of a date field without a selection
Date(day) == [year |-> 2025, month |-> 7, day |-> day]
NoDate == [year |-> 0, month |-> 0, day |-> 0]
\* useState<Date>(new Date("2025-07-20")) of the logs page
InitialDate == Date(20)
\* The days the calendar is clicked on
PickableDates == {Date(20), Date(21)}

DigitChars == <<"0", "1", "2", "3", "4", "5", "6", "7", "8", "9">>
RECURSIVE Digits(_, _)
Digits(n, width) ==
  IF width = 0 THEN <<>>
  ELSE Digits(n \div 10, width - 1) \o <<DigitChars[(n % 10) + 1]>>
\* format(d, "yyyy-MM-dd")
FormatYMD(d) ==
  Digits(d.year, 4) \o <<"-">> \o Digits(d.month, 2) \o <<"-">> \o Digits(d.day, 2)
iso(d) == FormatYMD(d)

\* A string state of a component that is null
NoError == NullParam

\* What the server answers for a date, or null before any answer
NoData == [isNull |-> TRUE, date |-> <<>>]
DataFor(dateStr) == [isNull |-> FALSE, date |-> dateStr]

\* How a fetch ends: a 200 with JSON, a 401, another status, or a rejection
\* (no connection, or a body that is not JSON)
FetchOutcomes == {"ok", "401", "500", "failed"}

\* HomePage of app/logs/page.tsx before its first effects have run.  The
\* fetches are kept by the run of the effect that started them.
InitLogs ==
  [mounted |-> FALSE, selectedDate |-> InitialDate,
   ringData |-> NoData, heartRateData |-> NoData,
   loading |-> FALSE, heartRateLoading |-> FALSE,
   error |-> NoError, heartRateError |-> NoError,
   ringFetches |-> <<>>, heartRateFetches |-> <<>>]

\* fetchRingData up to its first await
fetchRingData(l) ==
  [l EXCEPT !.loading = TRUE, !.error = NoError,
            !.ringFetches =
               Append(@, [dateStr |-> FormatYMD(l.selectedDate), pc |-> "pending"])]
\* fetchHeartRateData up to its first await
fetchHeartRateData(l) ==
  [l EXCEPT !.heartRateLoading = TRUE, !.heartRateError = NoError,
            !.heartRateFetches =
               Append(@, [dateStr |-> FormatYMD(l.selectedDate), pc |-> "pending"])]
\* The two effects that depend on selectedDate, in the order of the source
RunEffects(l) == fetchHeartRateData(fetchRingData(l))

RingError(outcome) ==
  IF outcome = "401" THEN "Please authenticate with Google Fit first"
  ELSE IF outcome = "500" THEN "Failed to fetch data: 500"
  ELSE "Failed to connect to server"
HeartRateError(outcome) ==
  IF outcome = "401" THEN "Please authenticate with Google Fit first"
  ELSE IF outcome = "500" THEN "Failed to fetch heart rate data: 500"
  ELSE "Failed to connect to server"

\* ReportPage: app/reports/page.tsx shows two images, the comprehensive
\* variant shows fitness data and the Vellum reports made from them
ReportVariants == {"images", "comprehensive"}
NoReport == [isNull |-> TRUE, start |-> <<>>, end |-> <<>>]
ReportFor(start, end) == [isNull |-> FALSE, start |-> start, end |-> end]
IdleReport(variant) ==
  [variant |-> variant, pc |-> "idle", fromDate |-> NoDate, toDate |-> NoDate,
   stepsImg |-> Null, sleepImg |-> Null,
   fitnessData |-> NoReport, vellumReports |-> NoReport,
   loading |-> FALSE, errorMsg |-> NoError, start |-> <<>>, end |-> <<>>]

\* `/reports/${name}_${start}_${end}.png`
ReportImage(name, start, end) ==
  <<"/reports/", name, "_">> \o start \o <<"_">> \o end \o <<".png">>

\* How a request of handleGenerate ends: a 200 with JSON, another status
\* with or without a text, or a rejection
ReportOutcomes == {"ok", "text", "empty", "failed"}
\* err.message || "Unknown error" of the catch block
ReportError(outcome, dflt) ==
  IF outcome = "text" THEN "report unavailable"
  ELSE IF outcome = "empty" THEN dflt
  ELSE "Failed to fetch"

\* ------------------------------------------------------------------------
\* State
\* ------------------------------------------------------------------------
VARIABLES
  cookieJar,   \* the browser's cookies for the application's origin
  req,         \* the callback requests, by request number
  issued,      \* how many times the initiate endpoint has answered
  consumed,    \* states that a delivered callback compared with the cookie
               \* since the state was last issued
  nodeEnv,     \* process.env.NODE_ENV, fixed while the process runs
  authResp,    \* the response the initiate endpoint returned last
  processEnv,  \* process.env: the GOOGLE_* variables
  secretsFile, \* client_secret.json in the working directory
  client,      \* what the last construction of an OAuth client came to
  encSecret,   \* process.env.COOKIE_ENCRYPTION_SECRET
  codec,       \* the cookie helper: its call, the cookie it set, the read back
  granted,     \* argument of the scope verifier
  hasScopes,   \* result of hasRequiredScopes(granted), "none" before the call
  missing,     \* the callback's missing-scope list for granted
  logs,        \* HomePage of the logs page: its state and its fetches
  report       \* ReportPage: its state and its request

vars ==
  <<cookieJar, req, issued, consumed, nodeEnv, authResp, processEnv, secretsFile,
    client, encSecret, codec, granted, hasScopes, missing, logs, report>>
flowVars == <<cookieJar, req, issued, consumed, nodeEnv, authResp>>
scopeVars == <<granted, hasScopes, missing>>
configVars == <<processEnv, secretsFile, client>>
\* State of the helpers, which no handler of the flow touches
codecVars == <<encSecret, codec>>
\* State of the pages, which have no part in the authorization flow
pageVars == <<logs, report>>
libVars == <<scopeVars, configVars, codecVars, pageVars>>

Reqs == 1..MaxReq

FailurePage == "/unsuccessful"
LandingPage == "/"

IdleReq ==
  [pc |-> "Idle", state |-> NullParam, code |-> NullParam,
   cookiesRead |-> FALSE, storedState |-> UndefinedValue,
   tokenCalls |-> 0, tokenResponse |-> NoCredentials, error |-> "",
   warned |-> <<>>, setState |-> NoSetCookie, setTokens |-> NoSetCookie,
   response |-> NoResponse]

DoneReq == [IdleReq EXCEPT !.pc = "Done"]

\* Handlers run on one event loop: a handler that has started runs without
\* interruption until it awaits or returns, and a request is handled as soon
\* as it is sent.  These are the positions inside such a run; while a request
\* is at one of them, no other request, and no step of the browser, moves.
SyncPcs ==
  {"Received", "ParamsChecked", "StateChecked", "Exchanged", "ScopeChecked", "Stored"}
EventLoopFree(r) == \A q \in Reqs \ {r} : req[q].pc \notin SyncPcs

Init ==
  /\ cookieJar = [oauth_state |-> NoCookie, oauth_tokens |-> NoCookie]
  /\ req = [r \in Reqs |-> IdleReq]
  /\ issued = 0
  /\ consumed = {}
  /\ nodeEnv = "production"
  /\ authResp = NoAuthResponse
  /\ processEnv = ConfiguredEnv
  /\ secretsFile = NoSecretsFile
  /\ client = NoClient
  /\ encSecret = Undefined
  /\ codec = IdleCodec
  /\ granted = Undefined
  /\ hasScopes = "none"
  /\ missing = <<>>
  /\ logs = InitLogs
  /\ report = IdleReport("images")

\* ------------------------------------------------------------------------
\* Initiate endpoint: GET of app/authorize/route.ts
\* ------------------------------------------------------------------------
StateCookieOptions(env) ==
  [set |-> TRUE, httpOnly |-> TRUE, sameSite |-> "lax",
   secure |-> (env = "production"), path |-> "/", maxAge |-> -1]

\* A handler that leaves the state out of the consent URL
AuthorizeResponse_NoStateParam(state, nenv, env) ==
  LET params ==
        << [name |-> "client_id", value |-> ToUSVString(env.GOOGLE_CLIENT_ID)],
           [name |-> "redirect_uri", value |-> ToUSVString(env.GOOGLE_REDIRECT_URI)],
           [name |-> "response_type", value |-> <<"code">>],
           [name |-> "scope", value |-> ConsentScope],
           [name |-> "access_type", value |-> <<"offline">>],
           [name |-> "include_granted_scopes", value |-> <<"true">>],
           [name |-> "prompt", value |-> <<"consent">>] >>
      authUrl == <<AuthEndpoint, "?">> \o ParamsToString(params)
  IN  [response |-> NextResponseRedirect(authUrl),
       setState |-> SetCookie(TextCookie(state), StateCookieOptions(nenv))]

\* The response of the handler for the state it generated: a redirect to
\* the consent URL, with oauth_state attached
AuthorizeResponse(state, nenv, env) ==
  LET scope == ConsentScope
      params ==
        << [name |-> "client_id", value |-> ToUSVString(env.GOOGLE_CLIENT_ID)],
           [name |-> "redirect_uri", value |-> ToUSVString(env.GOOGLE_REDIRECT_URI)],
           [name |-> "response_type", value |-> <<"code">>],
           [name |-> "scope", value |-> scope],
           [name |-> "access_type", value |-> <<"offline">>],
           [name |-> "include_granted_scopes", value |-> <<"true">>],
           [name |-> "prompt", value |-> <<"consent">>],
           [name |-> "state", value |-> <<state>>] >>
      authUrl == <<AuthEndpoint, "?">> \o ParamsToString(params)
      resp == NextResponseRedirect(authUrl)
  IN  [response |-> resp,
       setState |-> SetCookie(TextCookie(state), StateCookieOptions(nenv))]

\* The handler answers with a redirect that sets oauth_state, and the browser
\* stores the cookie when it follows the redirect.
AuthorizeGET ==
  /\ issued < MaxIssue
  /\ EventLoopFree(0)
  /\ LET state == randomUUID(issued + 1)
         resp == AuthorizeResponse(state, nodeEnv, processEnv)
     IN  /\ authResp' = resp
         /\ cookieJar' = [cookieJar EXCEPT !.oauth_state = ApplySetCookie(@, resp.setState)]
  /\ issued' = issued + 1
  /\ consumed' = {}
  /\ UNCHANGED <<req, nodeEnv, libVars>>

\* ------------------------------------------------------------------------
\* Callback endpoint: GET of the oauth2callback route
\* ------------------------------------------------------------------------
\* The Cookie header of a request, as far as the handler looks at it: it
\* reads oauth_state and no other cookie.  A request is handled as soon as it
\* is sent, so the cookies it carries are those the jar holds then.
RequestCookies(jar) == [oauth_state |-> jar.oauth_state]

\* The browser sends a callback request with the cookies it holds.
SendCallback(r, st, cd) ==
  /\ req[r].pc = "Idle"
  /\ EventLoopFree(r)
  /\ r > 1 => req[r - 1].pc # "Idle"
  /\ req' = [req EXCEPT ![r] =
       [IdleReq EXCEPT !.pc = "Received", !.state = st, !.code = cd]]
  /\ UNCHANGED <<cookieJar, issued, consumed, nodeEnv, authResp, libVars>>

\* A failure path that also signs the user out
Abort_ClearsSession(q) ==
  [q EXCEPT !.pc = "Aborted", !.response = NextResponseRedirect(FailurePage),
            !.setTokens = SetCookie(NoCookie, ClearCookieOptions)]

Abort(q) ==
  [q EXCEPT !.pc = "Aborted", !.response = NextResponseRedirect(FailurePage)]

\* A parameter check that looks at the state only
ParamsMissing_StateOnly(state, code) == Falsy(state)

\* !state || !code
ParamsMissing(state, code) == Falsy(state) \/ Falsy(code)

\* A state check that asks only for the cookie to be there
StateMismatch_PresenceOnly(storedState, state) == Falsy(storedState)

\* !storedState || storedState !== state
StateMismatch(storedState, state) == Falsy(storedState) \/ storedState # state

\* 1. Basic validation: both params must be present
CheckParams(r) ==
  /\ req[r].pc = "Received"
  /\ EventLoopFree(r)
  /\ req' = [req EXCEPT ![r] =
       IF ParamsMissing(@.state, @.code)
       THEN Abort(@)
       ELSE [@ EXCEPT !.pc = "ParamsChecked"]]
  /\ UNCHANGED <<cookieJar, issued, consumed, nodeEnv, authResp, libVars>>

\* 2. Compare incoming state with the value stored in cookie
CheckState(r) ==
  /\ req[r].pc = "ParamsChecked"
  /\ LET storedState == CookieValue(RequestCookies(cookieJar).oauth_state)
         q == [req[r] EXCEPT !.cookiesRead = TRUE, !.storedState = storedState]
     IN  req' = [req EXCEPT ![r] =
           IF StateMismatch(storedState, q.state)
           THEN Abort(q)
           ELSE [q EXCEPT !.pc = "StateChecked"]]
  /\ UNCHANGED <<cookieJar, issued, consumed, nodeEnv, authResp, libVars>>

\* The call of getToken made before the state has been compared
GetToken_BeforeStateCheck(r) ==
  /\ req[r].pc \in {"ParamsChecked", "StateChecked"}
  /\ req' = [req EXCEPT ![r] = [@ EXCEPT !.pc = "Exchanging", !.tokenCalls = @ + 1]]
  /\ UNCHANGED <<cookieJar, issued, consumed, nodeEnv, authResp, libVars>>

\* 3. Exchange the auth code for tokens: the call of getToken
GetToken(r) ==
  /\ req[r].pc = "StateChecked"
  /\ req' = [req EXCEPT ![r] = [@ EXCEPT !.pc = "Exchanging", !.tokenCalls = @ + 1]]
  /\ UNCHANGED <<cookieJar, issued, consumed, nodeEnv, authResp, libVars>>

\* getToken resolves: the provider answers with a credential
GetTokenResolve(r, grant) ==
  /\ req[r].pc = "Exchanging"
  /\ EventLoopFree(r)
  /\ req[r].code \in IssuedCodes
  /\ req' = [req EXCEPT ![r] =
       [@ EXCEPT !.pc = "Exchanged", !.tokenResponse = Credentials(grant)]]
  /\ UNCHANGED <<cookieJar, issued, consumed, nodeEnv, authResp, libVars>>

\* A catch block that sends the provider's error on to the browser
GetTokenReject_LeaksError(r, err) ==
  /\ req[r].pc = "Exchanging"
  /\ EventLoopFree(r)
  /\ req' = [req EXCEPT ![r] =
       [@ EXCEPT !.pc = "Aborted", !.error = err, !.response = NextResponseRedirect(err)]]
  /\ UNCHANGED <<cookieJar, issued, consumed, nodeEnv, authResp, libVars>>

\* A catch block that calls the token endpoint again after a failure
GetTokenReject_Retries(r, err) ==
  /\ req[r].pc = "Exchanging"
  /\ EventLoopFree(r)
  /\ req' = [req EXCEPT ![r] = [@ EXCEPT !.pc = "StateChecked", !.error = err]]
  /\ UNCHANGED <<cookieJar, issued, consumed, nodeEnv, authResp, libVars>>

\* getToken rejects: the catch block logs the error and redirects
GetTokenReject(r, err) ==
  /\ req[r].pc = "Exchanging"
  /\ EventLoopFree(r)
  /\ req' = [req EXCEPT ![r] = Abort([@ EXCEPT !.error = err])]
  /\ UNCHANGED <<cookieJar, issued, consumed, nodeEnv, authResp, libVars>>

\* 4. Ensure all required Google Fit scopes were granted
CheckScopes(r) ==
  /\ req[r].pc = "Exchanged"
  /\ LET missingList == missingScopes(req[r].tokenResponse.scope)
     IN  req' = [req EXCEPT ![r] =
           IF Len(missingList) > 0
           THEN Abort([@ EXCEPT !.warned = missingList])
           ELSE [@ EXCEPT !.pc = "ScopeChecked"]]
  /\ UNCHANGED <<cookieJar, issued, consumed, nodeEnv, authResp, libVars>>

\* 5. Store the entire token object in the oauth_tokens cookie
StoreTokens(r) ==
  /\ req[r].pc = "ScopeChecked"
  /\ req' = [req EXCEPT ![r] =
       [@ EXCEPT !.pc = "Stored",
                 !.setTokens = SetCookie(JSONstringify(req[r].tokenResponse),
                                         SessionCookieOptions(nodeEnv))]]
  /\ UNCHANGED <<cookieJar, issued, consumed, nodeEnv, authResp, libVars>>

\* The last step without the clearing of oauth_state
ClearStateAndRedirect_NoClear(r) ==
  /\ req[r].pc = "Stored"
  /\ req' = [req EXCEPT ![r] =
       [@ EXCEPT !.pc = "Redirected", !.response = NextResponseRedirect(LandingPage)]]
  /\ UNCHANGED <<cookieJar, issued, consumed, nodeEnv, authResp, libVars>>

\* 6. Clear the original CSRF state cookie, then redirect to the root
ClearStateAndRedirect(r) ==
  /\ req[r].pc = "Stored"
  /\ req' = [req EXCEPT ![r] =
       [@ EXCEPT !.pc = "Redirected",
                 !.setState = SetCookie(TextCookie(""), ClearCookieOptions),
                 !.response = NextResponseRedirect(LandingPage)]]
  /\ UNCHANGED <<cookieJar, issued, consumed, nodeEnv, authResp, libVars>>

\* The browser receives the response and applies its Set-Cookie headers.
DeliverResponse(r) ==
  /\ req[r].pc \in {"Aborted", "Redirected"}
  /\ EventLoopFree(r)
  /\ cookieJar' =
       [oauth_state |-> ApplySetCookie(cookieJar.oauth_state, req[r].setState),
        oauth_tokens |-> ApplySetCookie(cookieJar.oauth_tokens, req[r].setTokens)]
  /\ consumed' = IF req[r].cookiesRead THEN consumed \cup {req[r].state} ELSE consumed
  /\ req' = [req EXCEPT ![r] = DoneReq]
  /\ UNCHANGED <<issued, nodeEnv, authResp, libVars>>

Next ==
  \/ AuthorizeGET
  \/ \E r \in Reqs, st \in StateParams, cd \in CodeParams : SendCallback(r, st, cd)
  \/ \E r \in Reqs : CheckParams(r)
  \/ \E r \in Reqs : CheckState(r)
  \/ \E r \in Reqs : GetToken(r)
  \/ \E r \in Reqs, grant \in GrantSamples : GetTokenResolve(r, grant)
  \/ \E r \in Reqs, err \in ProviderErrors : GetTokenReject(r, err)
  \/ \E r \in Reqs : CheckScopes(r)
  \/ \E r \in Reqs : StoreTokens(r)
  \/ \E r \in Reqs : ClearStateAndRedirect(r)
  \/ \E r \in Reqs : DeliverResponse(r)

Spec == Init /\ [][Next]_vars

\* ------------------------------------------------------------------------
\* The flow under the scheduling of the server
\* ------------------------------------------------------------------------
\* The server runs the code of a handler it has started: a step that waits
\* for nothing outside the process is taken once it can be.  The answer to
\* the token request is the provider's to give: getToken is awaited with no
\* timeout option and no timer beside it, so nothing makes GetTokenResolve or
\* GetTokenReject happen.
HandlerFairness ==
  \A r \in Reqs :
    /\ WF_vars(CheckParams(r))
    /\ WF_vars(CheckState(r))
    /\ WF_vars(GetToken(r))
    /\ WF_vars(CheckScopes(r))
    /\ WF_vars(StoreTokens(r))
    /\ WF_vars(ClearStateAndRedirect(r))

SpecLive == Init /\ [][Next]_vars /\ HandlerFairness

\* ------------------------------------------------------------------------
\* Exceptions outside the try block of the callback handler
\* ------------------------------------------------------------------------
\* The try block of the handler holds the getToken call and nothing else.
\* Parameter parsing, the cookie read, the client construction, the scope
\* check, the two cookie writes and the redirects run outside it, at the
\* positions SyncPcs.  An exception thrown there leaves the handler, and the
\* framework answers the request itself: a bare server error, without the
\* cookies the handler had set.
ErrorResponse == [status |-> 500, location |-> ""]

UncaughtThrow(r) ==
  /\ req[r].pc \in SyncPcs
  /\ req' = [req EXCEPT ![r] =
       [@ EXCEPT !.pc = "Threw", !.response = ErrorResponse,
                 !.setState = NoSetCookie, !.setTokens = NoSetCookie]]
  /\ UNCHANGED <<cookieJar, issued, consumed, nodeEnv, authResp, libVars>>

\* The browser receives the server error; no cookie changes
DeliverError(r) ==
  /\ req[r].pc = "Threw"
  /\ EventLoopFree(r)
  /\ consumed' = IF req[r].cookiesRead THEN consumed \cup {req[r].state} ELSE consumed
  /\ req' = [req EXCEPT ![r] = DoneReq]
  /\ UNCHANGED <<cookieJar, issued, nodeEnv, authResp, libVars>>

NextFaults ==
  \/ Next
  \/ \E r \in Reqs : UncaughtThrow(r)
  \/ \E r \in Reqs : DeliverError(r)

SpecFaults == Init /\ [][NextFaults]_vars

\* ------------------------------------------------------------------------
\* The scope verifier on its own
\* ------------------------------------------------------------------------
InitScope ==
  /\ cookieJar = [oauth_state |-> NoCookie, oauth_tokens |-> NoCookie]
  /\ req = [r \in Reqs |-> IdleReq]
  /\ issued = 0
  /\ consumed = {}
  /\ nodeEnv = "production"
  /\ authResp = NoAuthResponse
  /\ processEnv = ConfiguredEnv
  /\ secretsFile = NoSecretsFile
  /\ client = NoClient
  /\ encSecret = Undefined
  /\ codec = IdleCodec
  /\ granted \in GrantInputs
  /\ hasScopes = "none"
  /\ missing = <<"none">>
  /\ logs = InitLogs
  /\ report = IdleReport("images")

CallHasRequiredScopes ==
  /\ hasScopes = "none"
  /\ hasScopes' = IF hasRequiredScopes(granted) THEN "true" ELSE "false"
  /\ UNCHANGED <<flowVars, configVars, codecVars, pageVars, granted, missing>>

CallMissingScopes ==
  /\ missing = <<"none">>
  /\ missing' = missingScopes(granted)
  /\ UNCHANGED <<flowVars, configVars, codecVars, pageVars, granted, hasScopes>>

NextScope == CallHasRequiredScopes \/ CallMissingScopes

SpecScope == InitScope /\ [][NextScope]_vars

\* ------------------------------------------------------------------------
\* Configuration: the initiate endpoint and the construction of the client
\* under every environment
\* ------------------------------------------------------------------------
InitConfig ==
  /\ cookieJar = [oauth_state |-> NoCookie, oauth_tokens |-> NoCookie]
  /\ req = [r \in Reqs |-> IdleReq]
  /\ issued = 0
  /\ consumed = {}
  /\ nodeEnv \in NodeEnvs
  /\ authResp = NoAuthResponse
  /\ processEnv \in ProcessEnvs
  /\ secretsFile \in SecretsFiles
  /\ client = NoClient
  /\ encSecret = Undefined
  /\ codec = IdleCodec
  /\ granted = Undefined
  /\ hasScopes = "none"
  /\ missing = <<>>
  /\ logs = InitLogs
  /\ report = IdleReport("images")

\* A call of buildOAuthClient()
BuildOAuthClient ==
  /\ client.by # "buildOAuthClient"
  /\ client' = buildOAuthClient(secretsFile, processEnv)
  /\ UNCHANGED <<flowVars, scopeVars, codecVars, pageVars, processEnv, secretsFile>>

\* The client construction of the callback handler, on its own
NewCallbackClient ==
  /\ client.by # "oauth2callback"
  /\ client' = CallbackOAuth2Client(processEnv)
  /\ UNCHANGED <<flowVars, scopeVars, codecVars, pageVars, processEnv, secretsFile>>

NextConfig == AuthorizeGET \/ BuildOAuthClient \/ NewCallbackClient

SpecConfig == InitConfig /\ [][NextConfig]_vars

\* ------------------------------------------------------------------------
\* The cookie helper: a value is stored, the cookie may be altered on its
\* way, and is read back
\* ------------------------------------------------------------------------
InitCodec ==
  /\ cookieJar = [oauth_state |-> NoCookie, oauth_tokens |-> NoCookie]
  /\ req = [r \in Reqs |-> IdleReq]
  /\ issued = 0
  /\ consumed = {}
  /\ nodeEnv \in NodeEnvs
  /\ authResp = NoAuthResponse
  /\ processEnv = ConfiguredEnv
  /\ secretsFile = NoSecretsFile
  /\ client = NoClient
  /\ encSecret \in EnvSecrets
  /\ codec = IdleCodec
  /\ granted = Undefined
  /\ hasScopes = "none"
  /\ missing = <<>>
  /\ logs = InitLogs
  /\ report = IdleReport("images")

codecFrame == <<flowVars, scopeVars, configVars, pageVars, encSecret>>

\* A call of setEncryptedCookie(name, value, options)
SetEncryptedCookie(value, options, iv) ==
  /\ codec.pc = "idle"
  /\ LET res == setEncryptedCookie("oauth_session", value, options, encSecret, nodeEnv, iv)
     IN  codec' = [codec EXCEPT !.pc = IF res.rejected THEN "rejected" ELSE "stored",
                                !.value = value, !.options = options,
                                !.cookie = res.cookie]
  /\ UNCHANGED codecFrame

\* One byte of the blob in the cookie is changed
TamperByte ==
  /\ codec.pc = "stored"
  /\ codec.altered = "no"
  /\ LET blob == Base64Decode(codec.cookie.value)
     IN  \E pos \in 1..Len(blob), delta \in ByteDeltas :
           codec' = [codec EXCEPT
             !.altered = "byte",
             !.cookie.value =
                Base64Encode([blob EXCEPT ![pos] = (@ + delta) % ByteRange])]
  /\ UNCHANGED codecFrame

\* The blob in the cookie is cut to fewer bytes than IV plus tag
Truncate ==
  /\ codec.pc = "stored"
  /\ codec.altered = "no"
  /\ LET blob == Base64Decode(codec.cookie.value)
     IN  \E len \in 0..(IvLength + TagLength - 1) :
           codec' = [codec EXCEPT !.altered = "short",
                                  !.cookie.value = Base64Encode(SubSeq(blob, 1, len))]
  /\ UNCHANGED codecFrame

\* The cookie is gone: expired, deleted, or never sent
DropCookie ==
  /\ codec.pc = "stored"
  /\ codec.altered = "no"
  /\ codec' = [codec EXCEPT !.altered = "absent", !.cookie = NoStoredCookie]
  /\ UNCHANGED codecFrame

\* The text of the cookie is no longer Base64: its last character is lost,
\* or its first character is replaced by one outside the alphabet
Garble ==
  /\ codec.pc = "stored"
  /\ codec.altered = "no"
  /\ LET text == codec.cookie.value
     IN  \E garbled \in {SubSeq(text, 1, Len(text) - 1),
                          [text EXCEPT ![1] = NotBase64]} :
           codec' = [codec EXCEPT !.altered = "garbled", !.cookie.value = garbled]
  /\ UNCHANGED codecFrame

\* The cookie is read back
Load ==
  /\ codec.pc = "stored"
  /\ codec' = [codec EXCEPT !.pc = "loaded",
                            !.decrypted = DecryptCookie(codec.cookie, encSecret),
                            !.loaded = load(codec.cookie, encSecret)]
  /\ UNCHANGED codecFrame

NextCodec ==
  \/ \E value \in Plaintexts, options \in CallerOptions, iv \in IvSamples :
       SetEncryptedCookie(value, options, iv)
  \/ TamperByte
  \/ Truncate
  \/ DropCookie
  \/ Garble
  \/ Load

SpecCodec == InitCodec /\ [][NextCodec]_vars

\* ------------------------------------------------------------------------
\* The logs page
\* ------------------------------------------------------------------------
InitPage(l, r) ==
  /\ cookieJar = [oauth_state |-> NoCookie, oauth_tokens |-> NoCookie]
  /\ req = [q \in Reqs |-> IdleReq]
  /\ issued = 0
  /\ consumed = {}
  /\ nodeEnv = "production"
  /\ authResp = NoAuthResponse
  /\ processEnv = ConfiguredEnv
  /\ secretsFile = NoSecretsFile
  /\ client = NoClient
  /\ encSecret = Undefined
  /\ codec = IdleCodec
  /\ granted = Undefined
  /\ hasScopes = "none"
  /\ missing = <<>>
  /\ logs = l
  /\ report = r

InitLogsPage == InitPage(InitLogs, IdleReport("images"))

logsFrame == <<flowVars, scopeVars, configVars, codecVars, report>>

\* The first render: both effects run
Mount ==
  /\ ~logs.mounted
  /\ logs' = RunEffects([logs EXCEPT !.mounted = TRUE])
  /\ UNCHANGED logsFrame

\* onChange of the date picker with another day: setSelectedDate(d), the
\* render that follows, and the two effects of that render
SelectDate(d) ==
  /\ logs.mounted
  /\ d # logs.selectedDate
  /\ Len(logs.ringFetches) <= MaxPicks
  /\ logs' = RunEffects([logs EXCEPT !.selectedDate = d])
  /\ UNCHANGED logsFrame

\* fetchRingData from the answer of its fetch to its end: the branch on
\* response.ok, setRingData or setError, and the finally block
RingResponse(i, outcome) ==
  /\ i \in DOMAIN logs.ringFetches
  /\ logs.ringFetches[i].pc = "pending"
  /\ logs' = [logs EXCEPT
       !.ringFetches[i].pc = "settled",
       !.ringData = IF outcome = "ok" THEN DataFor(logs.ringFetches[i].dateStr) ELSE @,
       !.error = IF outcome = "ok" THEN @ ELSE RingError(outcome),
       !.loading = FALSE]
  /\ UNCHANGED logsFrame

\* fetchHeartRateData from the answer of its fetch to its end
HeartRateResponse(i, outcome) ==
  /\ i \in DOMAIN logs.heartRateFetches
  /\ logs.heartRateFetches[i].pc = "pending"
  /\ logs' = [logs EXCEPT
       !.heartRateFetches[i].pc = "settled",
       !.heartRateData =
          IF outcome = "ok" THEN DataFor(logs.heartRateFetches[i].dateStr) ELSE @,
       !.heartRateError = IF outcome = "ok" THEN @ ELSE HeartRateError(outcome),
       !.heartRateLoading = FALSE]
  /\ UNCHANGED logsFrame

NextLogs ==
  \/ Mount
  \/ \E d \in PickableDates : SelectDate(d)
  \/ \E i \in 1..(MaxPicks + 1), outcome \in FetchOutcomes : RingResponse(i, outcome)
  \/ \E i \in 1..(MaxPicks + 1), outcome \in FetchOutcomes : HeartRateResponse(i, outcome)

SpecLogs == InitLogsPage /\ [][NextLogs]_vars

\* ------------------------------------------------------------------------
\* The report page
\* ------------------------------------------------------------------------
InitReportPage == \E variant \in ReportVariants : InitPage(InitLogs, IdleReport(variant))

reportFrame == <<flowVars, scopeVars, configVars, codecVars, logs>>

\* onSelect of the From calendar: a day, or undefined when the selected day
\* is clicked again
SetFromDate(d) ==
  /\ d # report.fromDate
  /\ report' = [report EXCEPT !.fromDate = d]
  /\ UNCHANGED reportFrame

\* onSelect of the To calendar
SetToDate(d) ==
  /\ d # report.toDate
  /\ report' = [report EXCEPT !.toDate = d]
  /\ UNCHANGED reportFrame

\* A click on Generate, which is disabled while loading: handleGenerate up
\* to its return without dates or to its first await
HandleGenerate ==
  /\ ~report.loading
  /\ report.pc = "idle"
  /\ report' =
       IF report.fromDate = NoDate \/ report.toDate = NoDate
       THEN [report EXCEPT !.errorMsg = "Please pick both start and end dates."]
       ELSE [report EXCEPT !.loading = TRUE, !.errorMsg = NoError,
                           !.start = iso(report.fromDate), !.end = iso(report.toDate),
                           !.pc = "fetching"]
  /\ UNCHANGED reportFrame

\* The catch block and the finally block of handleGenerate
CatchReportError(r, message) ==
  [r EXCEPT !.errorMsg = message,
            !.stepsImg = Null, !.sleepImg = Null,
            !.fitnessData = NoReport, !.vellumReports = NoReport,
            !.loading = FALSE, !.pc = "idle"]

\* handleGenerate from the answer of the report request on: to its end in
\* app/reports/page.tsx, to the request of the Vellum reports in the
\* comprehensive variant
ReportResponse(outcome) ==
  /\ report.pc = "fetching"
  /\ report' =
       IF outcome # "ok"
       THEN CatchReportError(report,
              ReportError(outcome,
                IF report.variant = "images" THEN "Failed to fetch report"
                ELSE "Failed to fetch comprehensive report"))
       ELSE IF report.variant = "images"
       THEN [report EXCEPT
               !.stepsImg = ReportImage("steps", report.start, report.end),
               !.sleepImg = ReportImage("sleep", report.start, report.end),
               !.loading = FALSE, !.pc = "idle"]
       ELSE [report EXCEPT
               !.fitnessData = ReportFor(report.start, report.end),
               !.pc = "fetchingVellum"]
  /\ UNCHANGED reportFrame

\* The comprehensive handleGenerate from the answer of the Vellum request
\* to its end
VellumResponse(outcome) ==
  /\ report.pc = "fetchingVellum"
  /\ report' =
       IF outcome # "ok"
       THEN CatchReportError(report,
              ReportError(outcome, "Failed to generate Vellum reports"))
       ELSE [report EXCEPT
               !.vellumReports = ReportFor(report.fitnessData.start,
                                           report.fitnessData.end),
               !.loading = FALSE, !.pc = "idle"]
  /\ UNCHANGED reportFrame

NextReport ==
  \/ \E d \in PickableDates \cup {NoDate} : SetFromDate(d)
  \/ \E d \in PickableDates \cup {NoDate} : SetToDate(d)
  \/ HandleGenerate
  \/ \E outcome \in ReportOutcomes : ReportResponse(outcome)
  \/ \E outcome \in ReportOutcomes : VellumResponse(outcome)

SpecReport == InitReportPage /\ [][NextReport]_vars

\* ------------------------------------------------------------------------
\* Vocabulary of the properties
\* ------------------------------------------------------------------------
\* scope stands in g as a token of its own: what is next to it on either side
\* is the start of g, the end of g, or one of the separators seps
IsTokenOf(scope, g, seps) ==
  \E i \in 1..Len(g) :
    /\ g[i] = scope
    /\ (i = 1 \/ g[i - 1] \in seps)
    /\ (i = Len(g) \/ g[i + 1] \in seps)

AllRequiredIn(g, seps) ==
  /\ g \notin {Null, Undefined}
  /\ \A k \in DOMAIN FIT_SCOPES : IsTokenOf(FIT_SCOPES[k], g, seps)

Whitespace == {SP, TAB}

\* The handler has returned its response, which the browser has not yet received
Returned(q) == q.pc \in {"Aborted", "Redirected"}
InFlight(q) == q.pc \notin {"Idle", "Done"}

ParamsPresent(q) == q.state \notin {NullParam, ""} /\ q.code \notin {NullParam, ""}
\* The request read oauth_state and found in it the state it carries
CsrfPassed(q) == q.cookiesRead /\ q.storedState = q.state /\ q.state \notin {NullParam, ""}
ExchangeSucceeded(q) == q.tokenCalls > 0 /\ q.tokenResponse.access_token # "" /\ q.error = ""

SetsSessionCookie(q) == q.setTokens.options.set
ClearsStateCookie(q) == q.setState.options.set /\ q.setState.options.maxAge = 0
FailureRedirect(q) == q.response = [status |-> 307, location |-> "/unsuccessful"]
SuccessRedirect(q) == q.response = [status |-> 307, location |-> "/"]

\* The cookie value v is the credential cred as JSON text
HoldsCredential(v, cred) == v.fmt = "json" /\ v.json = cred

AllChecksHeld(q) ==
  /\ ParamsPresent(q)
  /\ CsrfPassed(q)
  /\ ExchangeSucceeded(q)
  /\ AllRequiredIn(q.tokenResponse.scope, Whitespace)

\* What the provider reads in a URL it is sent to: the query after "?", cut
\* at "&" into name=value pairs, "+" read as a space.  Null when the URL has
\* no parameter of that name.
QueryOf(url) ==
  LET q == CHOOSE i \in DOMAIN url : url[i] = "?"
  IN  SubSeq(url, q + 1, Len(url))
FormDecode(v) == [i \in DOMAIN v |-> IF v[i] = "+" THEN SP ELSE v[i]]
SearchParam(url, name) ==
  LET pairs == Split(QueryOf(url), {"&"})
      hits == {i \in DOMAIN pairs :
                 Len(pairs[i]) >= 2 /\ pairs[i][1] = name /\ pairs[i][2] = "="}
  IN  IF hits = {} THEN Null
      ELSE LET i == CHOOSE j \in hits : \A k \in hits : j <= k
           IN  FormDecode(SubSeq(pairs[i], 3, Len(pairs[i])))

\* The initiate endpoint has answered at least once
Initiated == authResp # NoAuthResponse
ConsentUrl == authResp.response.location

\* ------------------------------------------------------------------------
\* C1
\* ------------------------------------------------------------------------
\* C1: a callback request sets the session cookie only if its state and code
\* were both present, the oauth_state cookie was present and equal to the
\* state, the exchange succeeded and every required scope is in the granted
\* string; a request that returns without all of these redirects to the
\* failure page and sets no session cookie.
C1_SessionCookieOnlyAfterAllChecks ==
  \A r \in Reqs :
    /\ SetsSessionCookie(req[r]) => AllChecksHeld(req[r])
    /\ (Returned(req[r]) /\ ~AllChecksHeld(req[r]))
         => (FailureRedirect(req[r]) /\ ~SetsSessionCookie(req[r]))

\* One request has returned with the session cookie while another has
\* returned from a state that differs from the cookie
C1_Witness ==
  \E r1, r2 \in Reqs :
    /\ req[r1].pc = "Redirected" /\ SetsSessionCookie(req[r1])
    /\ req[r2].pc = "Aborted" /\ req[r2].cookiesRead
    /\ req[r2].storedState \notin {UndefinedValue, req[r2].state}
\* ------------------------------------------------------------------------
\* C2
\* ------------------------------------------------------------------------
\* C2: once a callback that compared a state with the oauth_state cookie has
\* been answered, no later callback carrying that state passes the state
\* check unless the initiate endpoint has issued a state in between.
C2_ValidatedAtMostOnce ==
  \A r \in Reqs : req[r].pc = "StateChecked" => req[r].state \notin consumed

\* ------------------------------------------------------------------------
\* C3
\* ------------------------------------------------------------------------
\* C3: of two callback requests in flight together that carry the same
\* state, at most one passes the state check.
C3_OneConcurrentValidation ==
  \A r1, r2 \in Reqs :
    (/\ r1 # r2
     /\ InFlight(req[r1]) /\ InFlight(req[r2])
     /\ req[r1].state = req[r2].state)
      => ~(CsrfPassed(req[r1]) /\ CsrfPassed(req[r2]))

\* ------------------------------------------------------------------------
\* C4
\* ------------------------------------------------------------------------
\* C4: every callback request that reached the state check has cleared
\* oauth_state (a Set-Cookie with max-age 0) in the response it returns.
C4_StateCookieAlwaysCleared ==
  \A r \in Reqs :
    (Returned(req[r]) /\ req[r].cookiesRead) => ClearsStateCookie(req[r])

\* ------------------------------------------------------------------------
\* C5
\* ------------------------------------------------------------------------
\* C5: a callback request whose state equals the oauth_state cookie, that
\* carries a code, whose exchange succeeds and whose granted string holds
\* every required scope (separated by spaces) returns with the session
\* cookie set to the credential, oauth_state cleared, and a redirect to "/".
C5_SuccessHasAllThreeEffects ==
  \A r \in Reqs :
    (/\ Returned(req[r])
     /\ ParamsPresent(req[r])
     /\ CsrfPassed(req[r])
     /\ ExchangeSucceeded(req[r])
     /\ AllRequiredIn(req[r].tokenResponse.scope, {SP}))
      => (/\ SetsSessionCookie(req[r])
          /\ HoldsCredential(req[r].setTokens.value, req[r].tokenResponse)
          /\ req[r].setTokens.options.maxAge # 0
          /\ ClearsStateCookie(req[r])
          /\ SuccessRedirect(req[r]))

\* A request has returned after a successful exchange that granted every
\* required scope
C5_Witness ==
  \E r \in Reqs :
    /\ Returned(req[r])
    /\ CsrfPassed(req[r])
    /\ ExchangeSucceeded(req[r])
    /\ AllRequiredIn(req[r].tokenResponse.scope, {SP})

\* ------------------------------------------------------------------------
\* C6
\* ------------------------------------------------------------------------
\* C6: a callback request without a state or without a code (absent or
\* empty) goes from received straight to the failure redirect; it never
\* calls the token endpoint, never reads a cookie and sets none.
C6_MissingParamRejectedAtOnce ==
  \A r \in Reqs :
    (InFlight(req[r]) /\ ~ParamsPresent(req[r]))
      => /\ req[r].pc \in {"Received", "Aborted"}
         /\ req[r].pc = "Aborted" => FailureRedirect(req[r])
         /\ req[r].tokenCalls = 0
         /\ ~req[r].cookiesRead
         /\ ~req[r].setState.options.set
         /\ ~req[r].setTokens.options.set

\* A request with a state that matches the cookie and an empty code has
\* been rejected
C6_Witness ==
  \E r \in Reqs :
    /\ req[r].pc = "Aborted"
    /\ req[r].code = ""
    /\ req[r].state \notin {NullParam, ""}
    /\ CookieValue(cookieJar.oauth_state) = req[r].state

\* ------------------------------------------------------------------------
\* C7
\* ------------------------------------------------------------------------
\* C7: the value a callback writes to the session cookie is the Base64
\* encoding of a cipher output, and the credential is never written to a
\* cookie in clear.
C7_SessionCookieEncrypted ==
  \A r \in Reqs :
    SetsSessionCookie(req[r])
      => (req[r].setTokens.value.fmt = "base64" /\ cookieJar.oauth_tokens.fmt # "json")
\* ------------------------------------------------------------------------
\* C8
\* ------------------------------------------------------------------------
\* C8 as stated: hasRequiredScopes is true exactly when every required scope
\* is a token of the granted string delimited by any whitespace, and false
\* for a null or empty granted string.
C8_VerifierSplitsOnWhitespace ==
  hasScopes # "none"
    => /\ (hasScopes = "true") <=> AllRequiredIn(granted, Whitespace)
       /\ FalsyStr(granted) => hasScopes = "false"

\* C8 as amended: hasRequiredScopes is true exactly when every required scope
\* is a token of the granted string delimited by space characters (one or
\* more, also leading or trailing), and false for a null, undefined or empty
\* granted string.
C8_VerifierSplitsOnSpaces ==
  hasScopes # "none"
    => /\ (hasScopes = "true") <=> AllRequiredIn(granted, {SP})
       /\ FalsyStr(granted) => hasScopes = "false"

\* The verifier has accepted a string with a repeated space in it
C8_Witness ==
  /\ hasScopes = "true"
  /\ \E i \in 1..(Len(granted) - 1) : granted[i] = SP /\ granted[i + 1] = SP

\* ------------------------------------------------------------------------
\* C9
\* ------------------------------------------------------------------------
PhaseOrder ==
  <<"Received", "StateChecked", "Exchanged", "ScopeChecked", "Stored", "Redirected">>

\* The phase of the request's state machine a position of the handler is in
PhaseOf(pc) ==
  IF pc = "ParamsChecked" THEN "Received"
  ELSE IF pc = "Exchanging" THEN "StateChecked"
  ELSE pc

PhaseIndex(ph) == CHOOSE i \in DOMAIN PhaseOrder : PhaseOrder[i] = ph

PhaseStepAllowed(from, to) ==
  \/ from = to
  \/ from = "Idle" /\ to = "Received"
  \/ from \in {"Aborted", "Redirected"} /\ to = "Done"
  \/ /\ from \in {PhaseOrder[i] : i \in 1..(Len(PhaseOrder) - 1)}
     /\ \/ to = "Aborted"
        \/ to = PhaseOrder[PhaseIndex(from) + 1]

RequestStepInOrder(q, q2) ==
  /\ PhaseStepAllowed(PhaseOf(q.pc), PhaseOf(q2.pc))
  /\ q2.tokenCalls > q.tokenCalls => (PhaseOf(q.pc) = "StateChecked" /\ CsrfPassed(q))
  /\ (q2.pc # "Done" /\ (q2.pc = "ScopeChecked" \/ q2.warned # q.warned))
       => (q.pc = "Exchanged" /\ ExchangeSucceeded(q))
  /\ (SetsSessionCookie(q2) /\ ~SetsSessionCookie(q))
       => (q.pc = "ScopeChecked" /\ AllRequiredIn(q.tokenResponse.scope, {SP}))
  /\ Returned(q) => (q2 = q \/ q2.pc = "Done")

\* C9: a callback request goes through Received, StateChecked, Exchanged,
\* ScopeChecked, Stored, Redirected in this order or leaves it for Aborted;
\* the token endpoint is called only after the state check has passed, the
\* scopes are checked only after a successful exchange, the credential is
\* stored only after the scope check has passed, and nothing runs after
\* Aborted or Redirected.
C9_StepsInOrder ==
  [][\A r \in Reqs : RequestStepInOrder(req[r], req'[r])]_vars

\* One request has gone all the way to Redirected while another waits for
\* the token endpoint
C9_Witness ==
  \E r1, r2 \in Reqs : req[r1].pc = "Redirected" /\ req[r2].pc = "Exchanging"

\* ------------------------------------------------------------------------
\* C10
\* ------------------------------------------------------------------------
\* Why a request was aborted
AbortCause(q) ==
  IF ~ParamsPresent(q) THEN "MissingParameter"
  ELSE IF ~CsrfPassed(q) THEN "CsrfMismatch"
  ELSE IF q.error # "" THEN "ExchangeFailed"
  ELSE "InsufficientScope"

\* All that the browser receives of a request
ResponseOf(q) == <<q.response, q.setState, q.setTokens>>

\* C10: any two aborted callback requests, whatever step they failed at and
\* whatever code or provider error they met, return the same response: the
\* redirect to the failure page, with nothing of the code or the error in it.
C10_AbortsAreUniform ==
  \A r1, r2 \in Reqs :
    (req[r1].pc = "Aborted" /\ req[r2].pc = "Aborted")
      => /\ ResponseOf(req[r1]) = ResponseOf(req[r2])
         /\ FailureRedirect(req[r1])
         /\ req[r1].response.location \notin {req[r1].code, req[r1].error}

\* Two requests with different codes have been aborted, one because the
\* exchange failed and one because a scope was missing
C10_Witness ==
  \E r1, r2 \in Reqs :
    /\ req[r1].pc = "Aborted" /\ AbortCause(req[r1]) = "ExchangeFailed"
    /\ req[r2].pc = "Aborted" /\ AbortCause(req[r2]) = "InsufficientScope"
    /\ req[r1].code # req[r2].code

\* ------------------------------------------------------------------------
\* C12. A callback request calls the token endpoint at most once.  A request
\* whose exchange failed has made exactly one call, is at Aborted with the
\* failure redirect as its response, and no further call follows the failure.
\* ------------------------------------------------------------------------
C12_ExchangeNeverRetried ==
  \A r \in Reqs :
    /\ req[r].tokenCalls <= 1
    /\ req[r].error # "" =>
         /\ req[r].pc = "Aborted"
         /\ req[r].tokenCalls = 1
         /\ FailureRedirect(req[r])

\* A request whose exchange the provider refused with a timeout, now aborted
C12_Witness ==
  \E r \in Reqs :
    /\ req[r].error = "ETIMEDOUT"
    /\ req[r].pc = "Aborted"
    /\ req[r].tokenCalls = 1

\* ------------------------------------------------------------------------
\* C11. Whatever goes wrong while a callback request is handled, the handler
\* catches it: no request ends with an exception that left the handler, and
\* every ended request carries a redirect, the failure redirect when an
\* error arose.
\* ------------------------------------------------------------------------
C11_EveryErrorCaught ==
  \A r \in Reqs :
    /\ req[r].pc # "Threw"
    /\ req[r].pc \in {"Aborted", "Redirected"} => req[r].response.status = RedirectStatus
    /\ req[r].error # "" => FailureRedirect(req[r])

\* ------------------------------------------------------------------------
\* C13. Every callback request the server has received ends, with the
\* success redirect or the failure redirect, also when the token endpoint
\* never answers.
\* ------------------------------------------------------------------------
C13_EveryRequestTerminates ==
  \A r \in Reqs : (req[r].pc = "Received") ~> Returned(req[r])

BaselineScopes == <<"openid", "email", "profile">>
ExpectedScopeTokens ==
  LET all == BaselineScopes \o FIT_SCOPES
  IN  [i \in DOMAIN all |-> <<all[i]>>]

C15_ConsentUrlParameters ==
  Initiated =>
    /\ SearchParam(ConsentUrl, "response_type") = <<"code">>
    /\ SearchParam(ConsentUrl, "access_type") = <<"offline">>
    /\ SearchParam(ConsentUrl, "include_granted_scopes") = <<"true">>
    /\ SearchParam(ConsentUrl, "prompt") = <<"consent">>
    /\ Split(SearchParam(ConsentUrl, "scope"), {SP}) = ExpectedScopeTokens

\* A consent URL whose scope parameter has eight pieces, the sleep scope last
C15_Witness ==
  /\ Initiated
  /\ LET tokens == Split(SearchParam(ConsentUrl, "scope"), {SP})
     IN  /\ Len(tokens) = Len(BaselineScopes) + Len(FIT_SCOPES)
         /\ tokens[Len(tokens)] = <<FIT_SCOPES[Len(FIT_SCOPES)]>>
         /\ tokens[1] = <<"openid">>

\* ------------------------------------------------------------------------
\* C16. When the client id or the redirect URI is not set, the initiate
\* endpoint does not answer with a redirect and sets no oauth_state cookie.
\* ------------------------------------------------------------------------
Unset(v) == v = UndefinedValue

C16_UnconfiguredInitiateFails ==
  (Unset(processEnv.GOOGLE_CLIENT_ID) \/ Unset(processEnv.GOOGLE_REDIRECT_URI)) =>
    /\ authResp.response.status # RedirectStatus
    /\ ~authResp.setState.options.set
    /\ cookieJar.oauth_state = NoCookie

\* ------------------------------------------------------------------------
\* C17. No OAuth client comes out of a construction, by buildOAuthClient or
\* in the callback handler, with its client id, its client secret or its
\* redirect URI missing: such a construction ends in the configuration error.
\* ------------------------------------------------------------------------
C17_NoClientWithoutFullConfig ==
  client.kind = "client" =>
    /\ ~Falsy(client.clientId)
    /\ ~Falsy(client.clientSecret)
    /\ ~Falsy(client.redirectUri)

\* ------------------------------------------------------------------------
\* C18. The oauth_state cookie that the initiate endpoint sets has a
\* max-age: a positive number of seconds after which the browser drops it.
\* ------------------------------------------------------------------------
C18_StateCookieHasMaxAge ==
  Initiated =>
    /\ authResp.setState.options.set
    /\ authResp.setState.options.maxAge > 0

\* ------------------------------------------------------------------------
\* C19. A value stored by the cookie helper under a valid secret and read
\* back from the cookie as it was set comes back unchanged: decrypt gives
\* the bytes that were encrypted, and load gives the value that was stored.
\* ------------------------------------------------------------------------
C19_RoundTrip ==
  (codec.pc = "loaded" /\ codec.altered = "no") =>
    /\ codec.decrypted.ok
    /\ codec.decrypted.plaintext = TextEncode(codec.value)
    /\ codec.loaded.ok
    /\ codec.loaded.value = codec.value

\* A two-character value with a two-byte character, stored under the
\* fallback secret, which is longer than the key, and read back
C19_Witness ==
  /\ codec.pc = "loaded"
  /\ codec.altered = "no"
  /\ encSecret = Undefined
  /\ codec.value = <<"é", "a">>
  /\ codec.loaded.value = <<"é", "a">>

\* ------------------------------------------------------------------------
\* C20. When one byte of the blob was changed, whichever it is, or the blob
\* was cut below the length of IV plus tag, decrypt fails with
\* DecryptionFailed; and decrypt never succeeds with bytes other than those
\* that were encrypted.
\* ------------------------------------------------------------------------
C20_TamperingDetected ==
  codec.pc = "loaded" =>
    /\ codec.altered \in {"byte", "short"} => codec.decrypted = DecryptionFailed
    /\ codec.decrypted.ok => codec.decrypted.plaintext = TextEncode(codec.value)

\* A blob with one byte of its ciphertext changed, refused by decrypt
C20_Witness ==
  /\ codec.pc = "loaded"
  /\ codec.altered = "byte"
  /\ codec.value = <<"a", "a">>
  /\ codec.decrypted.error = "DecryptionFailed"
  /\ LET blob == Base64Decode(codec.cookie.value)
         iv == SubSeq(blob, 1, IvLength)
         sent == AesGcmEncrypt(KeyMaterial(ResolveSecret(encSecret)), iv, TextEncode(codec.value))
     IN  /\ Len(blob) = IvLength + Len(sent)
         /\ blob[IvLength + 1] # sent[1]

\* ------------------------------------------------------------------------
\* C21. load gives the caller the value that was stored or the one signal
\* SessionUnreadable, nothing else: a cookie that is absent, one that is not
\* Base64 and one that does not decrypt all give that same signal, and what
\* load hands out when it succeeds is the stored value, never the blob.
\* ------------------------------------------------------------------------
C21_LoadFailsUniformly ==
  codec.pc = "loaded" =>
    /\ codec.loaded.ok \/ codec.loaded = SessionUnreadable
    /\ codec.altered # "no" => codec.loaded = SessionUnreadable
    /\ codec.loaded.ok => codec.loaded.value = codec.value

\* A cookie whose text is not Base64, read back as SessionUnreadable
C21_Witness ==
  /\ codec.pc = "loaded"
  /\ codec.altered = "garbled"
  /\ codec.cookie.set
  /\ ~Base64Valid(codec.cookie.value)
  /\ codec.loaded = SessionUnreadable

\* ------------------------------------------------------------------------
\* C22. Whatever the length of the secret, a call of the cookie helper
\* derives key material of the key length from it and is not rejected.
\* ------------------------------------------------------------------------
C22_KeyHasKeyLength ==
  codec.pc # "idle" =>
    /\ Len(KeyMaterial(ResolveSecret(encSecret))) = KeyLength
    /\ codec.pc # "rejected"

\* ------------------------------------------------------------------------
\* C23. The attributes of the cookie that setEncryptedCookie sets are the
\* caller's options merged over the defaults: an attribute the caller passed
\* has the caller's value, one the caller did not pass has its default
\* (httpOnly true, sameSite lax, secure exactly in production, path "/"),
\* and there is no other attribute.
\* ------------------------------------------------------------------------
DefaultAttributes == {"httpOnly", "sameSite", "secure", "path"}
C23_OptionsMergedOverDefaults ==
  codec.cookie.set =>
    LET passed == codec.options
        attrs == codec.cookie.options
    IN  /\ DOMAIN attrs = DOMAIN passed \cup DefaultAttributes
        /\ \A k \in DOMAIN passed : attrs[k] = passed[k]
        /\ "httpOnly" \notin DOMAIN passed => attrs.httpOnly = TRUE
        /\ "sameSite" \notin DOMAIN passed => attrs.sameSite = "lax"
        /\ "secure" \notin DOMAIN passed => attrs.secure = (nodeEnv = "production")
        /\ "path" \notin DOMAIN passed => attrs.path = "/"
C23_Witness ==
  /\ codec.pc = "stored"
  /\ codec.options = [httpOnly |-> FALSE, path |-> "/api"]
  /\ codec.cookie.options.httpOnly = FALSE
  /\ codec.cookie.options.path = "/api"
  /\ codec.cookie.options.sameSite = "lax"
  /\ codec.cookie.options.secure = FALSE
  /\ nodeEnv = "development"

\* ------------------------------------------------------------------------
\* C24. The credentials of client_secret.json go before the environment
\* variables in development only: there a credential the file supplies is
\* the client's, and in production the client that buildOAuthClient returns
\* has the client id, the secret and the redirect URI of the environment.
\* ------------------------------------------------------------------------
C24_ProductionUsesEnvAlone ==
  (client.by = "buildOAuthClient" /\ client.kind = "client") =>
    LET fileCreds == readClientSecrets(secretsFile)
    IN  /\ nodeEnv = "production" =>
              /\ client.clientId = processEnv.GOOGLE_CLIENT_ID
              /\ client.clientSecret = processEnv.GOOGLE_CLIENT_SECRET
              /\ client.redirectUri = processEnv.GOOGLE_REDIRECT_URI
        /\ nodeEnv = "development" =>
              /\ fileCreds.id # UndefinedValue => client.clientId = fileCreds.id
              /\ fileCreds.secret # UndefinedValue =>
                   client.clientSecret = fileCreds.secret
              /\ fileCreds.redirectUri # UndefinedValue =>
                   client.redirectUri = fileCreds.redirectUri

\* The cookie text that the helper writes for a value under a secret
EncodedUnder(secret, iv, value) ==
  Base64Encode(Combined(iv, AesGcmEncrypt(KeyMaterial(secret), iv, TextEncode(value))))

\* ------------------------------------------------------------------------
\* C25. In production the fallback secret encrypts no cookie: there
\* COOKIE_ENCRYPTION_SECRET is set whenever setEncryptedCookie has stored a
\* cookie, and the cookie is the encryption of the value under that secret
\* and not under the fallback constant.
\* ------------------------------------------------------------------------
C25_NoFallbackSecretInProduction ==
  (nodeEnv = "production" /\ codec.pc = "stored" /\ codec.altered = "no") =>
    /\ encSecret # Undefined
    /\ \E iv \in IvSamples :
          codec.cookie.value = EncodedUnder(encSecret, iv, codec.value)
    /\ \A iv \in IvSamples :
          codec.cookie.value # EncodedUnder(FallbackSecret, iv, codec.value)

\* ------------------------------------------------------------------------
\* C26. On every granted value (null, undefined, empty, with repeated
\* spaces, in either order of the scopes) the scope check of the callback
\* handler and hasRequiredScopes agree: the handler's list of missing scopes
\* is empty exactly when hasRequiredScopes returns true.
\* ------------------------------------------------------------------------
C26_InlineCheckAgreesWithVerifier ==
  (hasScopes # "none" /\ missing # <<"none">>) =>
    ((missing = <<>>) <=> (hasScopes = "true"))
\* Both have accepted a string written backwards with a repeated space
C26_Witness ==
  /\ hasScopes = "true"
  /\ missing = <<>>
  /\ granted # Null /\ granted # Undefined
  /\ granted[1] = FIT_SCOPES[Len(FIT_SCOPES)]
  /\ \E i \in 1..(Len(granted) - 1) : granted[i] = SP /\ granted[i + 1] = SP

\* ------------------------------------------------------------------------
\* C27. Every call of the initiate endpoint overwrites oauth_state with its
\* new state, and once it has been called more than once, a callback whose
\* state is not the most recent one does not pass the state check: the
\* check ends it with the redirect to the failure page.
\* ------------------------------------------------------------------------
C27_OnlyLatestStatePasses ==
  [][/\ issued' # issued =>
          cookieJar'.oauth_state = TextCookie(randomUUID(issued'))
     /\ \A r \in Reqs :
          (/\ issued >= 2
           /\ req[r].pc = "ParamsChecked"
           /\ req'[r].pc # "ParamsChecked"
           /\ req[r].state # randomUUID(issued))
          => (req'[r].pc = "Aborted" /\ FailureRedirect(req'[r]))]_vars
\* Two calls of initiate, then the first callback, carrying the state of the
\* first call, has been refused against the cookie of the second
C27_Witness ==
  /\ issued = 2
  /\ req[1].pc = "Aborted"
  /\ req[1].state = randomUUID(1)
  /\ req[1].cookiesRead
  /\ req[1].storedState = randomUUID(2)
  /\ FailureRedirect(req[1])

\* ------------------------------------------------------------------------
\* C28. A callback request that ends Aborted sets no oauth_tokens cookie,
\* and the delivery of its response leaves the oauth_tokens cookie of the
\* browser as it was: a failed attempt does not overwrite, clear or replace
\* the credential an earlier attempt stored.
\* ------------------------------------------------------------------------
C28_AbortKeepsSessionCookie ==
  [][\A r \in Reqs :
       /\ req'[r].pc = "Aborted" => req'[r].setTokens = NoSetCookie
       /\ (req[r].pc = "Aborted" /\ req'[r].pc # "Aborted")
            => cookieJar'.oauth_tokens = cookieJar.oauth_tokens]_vars
\* The first request has stored a credential and is done, the second has
\* ended Aborted, and the credential is in the jar
C28_Witness ==
  /\ req[1].pc = "Done"
  /\ req[2].pc = "Aborted"
  /\ FailureRedirect(req[2])
  /\ cookieJar.oauth_tokens.fmt = "json"

\* ------------------------------------------------------------------------
\* C29. On the logs page, once every fetch has ended and no error is shown,
\* the ring data and the heart-rate data shown are those of the selected
\* date, also when the date changed while a fetch was pending; and each
\* loading flag is true as long as a fetch of its kind is pending.
\* ------------------------------------------------------------------------
PendingIn(fetches) == \E i \in DOMAIN fetches : fetches[i].pc = "pending"
ShownFor(data, date) == data.isNull \/ data.date = FormatYMD(date)
C29_LatestDateShown ==
  /\ (~PendingIn(logs.ringFetches) /\ logs.error = NoError)
       => ShownFor(logs.ringData, logs.selectedDate)
  /\ (~PendingIn(logs.heartRateFetches) /\ logs.heartRateError = NoError)
       => ShownFor(logs.heartRateData, logs.selectedDate)
  /\ PendingIn(logs.ringFetches) => logs.loading
  /\ PendingIn(logs.heartRateFetches) => logs.heartRateLoading

\* ------------------------------------------------------------------------
\* C30. On the report page, whenever handleGenerate has returned and an
\* error message is shown, no report output is shown with it (stepsImg and
\* sleepImg, fitnessData and vellumReports are null) and loading is false.
\* ------------------------------------------------------------------------
C30_NoErrorBesideReport ==
  (report.pc = "idle" /\ report.errorMsg # NoError) =>
    /\ report.stepsImg = Null /\ report.sleepImg = Null
    /\ report.fitnessData.isNull /\ report.vellumReports.isNull
    /\ ~report.loading

====
